---- MODULE Spec2Model ----
(***************************************************************************)
(* A model of src/extract_pdf.py: the chunker (chunk_text), the retrying   *)
(* summarization client (summarize_with_claude), checkpoint persistence    *)
(* (save_partial_results) and the orchestrator (process_stock_report).     *)
(*                                                                         *)
(* Three specifications share the variables:                               *)
(*   Spec      one run of process_stock_report, with the retry loop of     *)
(*             summarize_with_claude running inside it for every chunk;    *)
(*   SpecSum   one call of summarize_with_claude for any max_retries;      *)
(*   SpecChunk one call of chunk_text, one loop iteration per step.        *)
(*                                                                         *)
(* Texts are sequences of one-character strings; offsets are Python's      *)
(* 0-based offsets, so text[k] of the source is text[k + 1] here.          *)
(***************************************************************************)
EXTENDS Integers, Sequences, FiniteSets, TLC

VARIABLES
    pc,                 \* position of process_stock_report (or "lib" / "chunker")
    fileAtStart,        \* what the output path held before the run
    file,               \* the checkpoint file on disk
    extracted_pages,    \* extract_pdf's return value
    extractError,       \* extract_pdf caught an exception
    text_chunks,        \* result_data["chunks"] (the same list object)
    i,                  \* index of the chunk being processed (0-based)
    successful_chunks,  \* the success counter
    outcomes,           \* history: per chunk, what summarize_with_claude did
    writes,             \* history: per chunk index, outcome of its checkpoint write
    pacing,             \* history: inter-request delays slept
    sstate,             \* summarize_with_claude: idle/attempting/succeeded/failed/none
    max_retries,        \* summarize_with_claude's parameter
    attempt,            \* the retry loop's index
    sleeps,             \* history: the backoff sleeps of this call, in order
    responses,          \* history: the endpoint's responses to this call, in order
    retval,             \* the returned summary
    raised,             \* the exception a call or the run ended with
    cin,                \* chunk_text's arguments
    cpage,              \* chunk_text: index of the page being processed (0-based)
    cstart,             \* chunk_text: start of the splitting loop (-1 outside it)
    chunks,             \* chunk_text: the chunks emitted so far
    windows             \* history: the windows [start, end) the splitting loop cut

vars == <<pc, fileAtStart, file, extracted_pages, extractError, text_chunks, i,
          successful_chunks, outcomes, writes, pacing, sstate, max_retries,
          attempt, sleeps, responses, retval, raised, cin, cpage, cstart,
          chunks, windows>>

pipeVars == <<pc, fileAtStart, file, extracted_pages, extractError, text_chunks,
              i, successful_chunks, outcomes, writes, pacing>>
sumVars == <<sstate, max_retries, attempt, sleeps, responses, retval>>
chunkVars == <<cin, cpage, cstart, chunks, windows>>

(***************************************************************************)
(* Bounds of the model.                                                    *)
(***************************************************************************)
MaxPages == 2          \* pages of the document a run processes
MaxRetries == 5        \* largest max_retries of a lone summarize_with_claude call

(***************************************************************************)
(* Program constants.                                                      *)
(***************************************************************************)
DefaultChunkSize == 1000
DefaultChunkOverlap == 200
DefaultMaxRetries == 5
RequestDelay == 5

Min(a, b) == IF a <= b THEN a ELSE b
Max(a, b) == IF a >= b THEN a ELSE b

(***************************************************************************)
(* Text helpers: Python's str.strip, slicing and str.rfind.                *)
(***************************************************************************)
Whitespace == {" ", "\n"}

\* text[lo:hi] for 0 <= lo, hi (Python clamps hi to the length).
Slice(text, lo, hi) ==
    IF lo >= Min(hi, Len(text)) THEN <<>>
    ELSE SubSeq(text, lo + 1, Min(hi, Len(text)))

\* str.strip(): leading and trailing whitespace removed.
Strip(text) ==
    LET kept == {k \in 1..Len(text) : text[k] \notin Whitespace}
    IN  IF kept = {} THEN <<>>
        ELSE LET first == CHOOSE k \in kept : \A m \in kept : k <= m
                 last == CHOOSE k \in kept : \A m \in kept : k >= m
             IN  SubSeq(text, first, last)

\* A slice index as Python normalises it: negative counts from the end.
SliceIndex(text, k) ==
    IF k < 0 THEN Max(Len(text) + k, 0) ELSE Min(k, Len(text))

\* text.rfind(sep, lo, hi): the highest offset k with text[k:k+len(sep)] = sep
\* and lo <= k, k + len(sep) <= hi; -1 when there is none.
RFind(text, sep, lo, hi) ==
    LET a == SliceIndex(text, lo)
        b == SliceIndex(text, hi)
        hits == {k \in a..(b - Len(sep)) : SubSeq(text, k + 1, k + Len(sep)) = sep}
    IN  IF hits = {} THEN -1
        ELSE CHOOSE k \in hits : \A m \in hits : k >= m

(***************************************************************************)
(* chunk_text, src/extract_pdf.py:57-133.                                  *)
(***************************************************************************)
ParagraphBreak == <<"\n", "\n">>
SentenceSeps == << <<".", " ">>, <<"!", " ">>, <<"?", " ">>,
                   <<".", "\n">>, <<"!", "\n">>, <<"?", "\n">> >>

\* int(chunk_size * 0.2), line 97
SearchWidth(chunk_size) == (chunk_size * 2) \div 10

\* One pass of the body of "for sep in [...]", lines 106-108.
SentenceStep(text, sep, search_start, end, sentence_break) ==
    LET pos == RFind(text, sep, search_start, end)
    IN  IF pos # -1 /\ (sentence_break = -1 \/ pos > sentence_break)
        THEN pos + Len(sep)
        ELSE sentence_break

\* The loop of lines 104-108, from separator number k on.
RECURSIVE SentenceBreakFrom(_, _, _, _, _)
SentenceBreakFrom(text, k, search_start, end, sentence_break) ==
    IF k > Len(SentenceSeps) THEN sentence_break
    ELSE SentenceBreakFrom(text, k + 1, search_start, end,
             SentenceStep(text, SentenceSeps[k], search_start, end, sentence_break))

\* The hard cutoff of line 94, one character too far.
HardEnd_OffByOne(text, start, chunk_size) == Min(start + chunk_size + 1, Len(text))

\* The hard cutoff of line 94.
HardEnd(text, start, chunk_size) == Min(start + chunk_size, Len(text))

\* Lines 94-111 with the two searches in the other order: a sentence
\* terminator is taken before a paragraph break is looked for.
WindowEnd_SentenceFirst(text, start, chunk_size) ==
    LET end == Min(start + chunk_size, Len(text))
        search_start == end - SearchWidth(chunk_size)
        sentence_break == SentenceBreakFrom(text, 1, search_start, end, -1)
        paragraph_break == RFind(text, ParagraphBreak, search_start, end)
    IN  IF sentence_break # -1 /\ sentence_break > start
        THEN sentence_break
        ELSE IF paragraph_break # -1 /\ paragraph_break > start
             THEN paragraph_break + 2
             ELSE end

\* The end of the window that starts at start, lines 94-111.
WindowEnd(text, start, chunk_size) ==
    LET end == HardEnd(text, start, chunk_size)
        search_start == end - SearchWidth(chunk_size)
        paragraph_break == RFind(text, ParagraphBreak, search_start, end)
    IN  IF paragraph_break # -1 /\ paragraph_break > start
        THEN paragraph_break + 2
        ELSE LET sentence_break ==
                     SentenceBreakFrom(text, 1, search_start, end, -1)
             IN  IF sentence_break # -1 /\ sentence_break > start
                 THEN sentence_break
                 ELSE end

\* Line 125 with the overlap added instead of subtracted.
NextStart_OverlapAdded(start, end, chunk_overlap) == Max(start + 1, end + chunk_overlap)

\* Line 125 without the floor of start + 1.
NextStart_NoFloor(start, end, chunk_overlap) == end - chunk_overlap

\* Line 125.
NextStart(start, end, chunk_overlap) == Max(start + 1, end - chunk_overlap)

\* The loop test of line 92.
SplitContinues(text, start) == start < Len(text)

\* The chunk dictionary tagged with the 0-based index of the page.
Chunk_ZeroBased(text, page_num) ==
    [text |-> text, pages |-> <<page_num - 1>>, source_page |-> page_num - 1,
     has_summary |-> FALSE, summary |-> <<>>]

\* A chunk dictionary, lines 81-87 and 116-122; "summary" is set by the
\* orchestrator only (has_summary: whether the key is present).
Chunk(text, page_num) ==
    [text |-> text, pages |-> <<page_num>>, source_page |-> page_num,
     has_summary |-> FALSE, summary |-> <<>>]

\* Lines 114-122: the chunk of window [start, end), when its text is not empty.
WindowChunks(text, start, end, page_num) ==
    LET t == Strip(Slice(text, start, end))
    IN  IF t # <<>> THEN <<Chunk(t, page_num)>> ELSE <<>>

\* The splitting loop of lines 91-125 from start on.
RECURSIVE SplitFrom(_, _, _, _, _)
SplitFrom(text, start, page_num, chunk_size, chunk_overlap) ==
    IF ~SplitContinues(text, start) THEN <<>>
    ELSE LET end == WindowEnd(text, start, chunk_size)
         IN  WindowChunks(text, start, end, page_num)
             \o SplitFrom(text, NextStart(start, end, chunk_overlap), page_num,
                          chunk_size, chunk_overlap)

\* Line 76 without the strip: only the empty string counts as empty.
IsEmptyPage_NoStrip(text) == text = <<>>

\* Line 76.
IsEmptyPage(text) == Strip(text) = <<>>

\* Line 80 with < for <=: a page of exactly chunk_size characters is split.
FitsOneChunk_Strict(text, chunk_size) == Len(text) < chunk_size

\* Line 80.
FitsOneChunk(text, chunk_size) == Len(text) <= chunk_size

\* The chunks of one page, lines 72-125.
PageChunks(page_data, chunk_size, chunk_overlap) ==
    IF IsEmptyPage(page_data.text) THEN <<>>
    ELSE IF FitsOneChunk(page_data.text, chunk_size)
         THEN <<Chunk(page_data.text, page_data.page_number)>>
         ELSE SplitFrom(page_data.text, 0, page_data.page_number,
                        chunk_size, chunk_overlap)

\* chunk_text as a function of its arguments.
RECURSIVE chunk_text(_, _, _)
chunk_text(pages, chunk_size, chunk_overlap) ==
    IF pages = <<>> THEN <<>>
    ELSE PageChunks(Head(pages), chunk_size, chunk_overlap)
         \o chunk_text(Tail(pages), chunk_size, chunk_overlap)

(***************************************************************************)
(* summarize_with_claude, src/extract_pdf.py:135-172.                      *)
(* A message (str(e), a summary) is a sequence of tokens.                  *)
(***************************************************************************)
Summaries == {<<"summary A">>, <<"summary B">>}
ThrottlingError == <<"An error occurred (", "ThrottlingException", ")">>
OtherError == <<"An error occurred (", "ValidationException", ")">>
EndpointErrors == {ThrottlingError, OtherError}

\* Further failures of a call: throttling reported in other words, and a
\* response whose body lacks the 'content' key (lines 159-160 raise KeyError).
ThrottlingError2 == <<"ThrottlingException", ": Too many requests">>
MalformedBody == <<"KeyError", "content">>

\* What one invoke_model call (with the parsing of its body) can do.
EndpointResponses ==
    [ok : {TRUE}, body : Summaries] \cup [ok : {FALSE}, body : EndpointErrors]

\* "ThrottlingException" in str(e), line 165
IsThrottling(msg) == \E k \in 1..Len(msg) : msg[k] = "ThrottlingException"

\* The test of line 165 with the budget off by one: the last attempt retries too.
ShouldRetry_OffByOne(msg, att, retries) == IsThrottling(msg) /\ att < retries

\* The test of line 165 without the look at the message: any error is retried.
ShouldRetry_AnyError(msg, att, retries) == att < retries - 1

\* The test of line 165.
ShouldRetry(msg, att, retries) == IsThrottling(msg) /\ att < retries - 1

\* wait_time with the exponent one short: 2, 4, 8, ...
WaitTime_OneShort(att) == 2 ^ (att + 1)

\* wait_time of line 166.
WaitTime(att) == 2 ^ (att + 2)

\* Line 162: the value a successful attempt returns.
ReturnedSummary(resp) == resp.body

\* Entering the function: the state before the first pass of the loop.
SummarizeEntry(retries) ==
    /\ sstate' = "attempting"
    /\ max_retries' = retries
    /\ attempt' = 0
    /\ sleeps' = <<>>
    /\ responses' = <<>>
    /\ retval' = <<>>

\* One pass of the loop of lines 143-172: one endpoint call, then either the
\* return of line 162, the sleep of line 168 or the raise of line 172.
Attempt(resp) ==
    /\ sstate = "attempting"
    /\ attempt < max_retries
    /\ responses' = Append(responses, resp)
    /\ IF resp.ok
       THEN /\ retval' = ReturnedSummary(resp)
            /\ sstate' = "succeeded"
            /\ UNCHANGED <<attempt, sleeps, raised>>
       ELSE IF ShouldRetry(resp.body, attempt, max_retries)
            THEN /\ sleeps' = Append(sleeps, WaitTime(attempt))
                 /\ attempt' = attempt + 1
                 /\ UNCHANGED <<sstate, retval, raised>>
            ELSE /\ raised' = resp.body
                 /\ sstate' = "failed"
                 /\ UNCHANGED <<attempt, sleeps, retval>>
    /\ UNCHANGED <<max_retries>>
    /\ UNCHANGED pipeVars
    /\ UNCHANGED chunkVars

CallEndpoint == \E resp \in EndpointResponses : Attempt(resp)

AllEndpointResponses ==
    EndpointResponses \cup [ok : {FALSE}, body : {ThrottlingError2, MalformedBody}]

CallAnyEndpoint == \E resp \in AllEndpointResponses : Attempt(resp)

\* range(max_retries) is empty: the function falls off its end and returns None.
LoopExhausted ==
    /\ sstate = "attempting"
    /\ attempt >= max_retries
    /\ sstate' = "none"
    /\ UNCHANGED <<max_retries, attempt, sleeps, responses, retval, raised>>
    /\ UNCHANGED pipeVars
    /\ UNCHANGED chunkVars

(***************************************************************************)
(* extract_pdf, save_partial_results and process_stock_report.             *)
(***************************************************************************)
pdf_path == "report.pdf"

PageTexts == {<<" ">>, <<"a">>, <<"b", ".">>}

RECURSIVE SeqsUpTo(_, _)
SeqsUpTo(S, n) ==
    IF n = 0 THEN {<<>>}
    ELSE LET shorter == SeqsUpTo(S, n - 1)
         IN  shorter \cup {Append(q, x) : q \in {r \in shorter : Len(r) = n - 1}, x \in S}

\* The per-page texts a document can hold.
Documents == SeqsUpTo(PageTexts, MaxPages)

\* Lines 38-46: the page records of the first n pages of the document.
ExtractedPages(doc, n) ==
    [k \in 1..n |-> [text |-> doc[k], page_number |-> k]]

NoData == [source |-> "", chunks |-> <<>>]
NoFile == [state |-> "absent", data |-> NoData]
StaleFile == [state |-> "stale", data |-> NoData]

\* json.dump of result_data, line 177: the file holds a copy of the record as
\* it is at the time of the write.
DumpJson(source, chunkList) ==
    [state |-> "written", data |-> [source |-> source, chunks |-> chunkList]]

WriteErrors == {"open fails", "dump fails"}
WriteOutcomes == {"ok"} \cup WriteErrors

\* save_partial_results, lines 174-178: the file after the call. open(.., 'w')
\* truncates the file; a failure of json.dump leaves a partial file.
save_partial_results(old, source, chunkList, outcome) ==
    CASE outcome = "ok" -> DumpJson(source, chunkList)
      [] outcome = "open fails" -> old
      [] outcome = "dump fails" -> [state |-> "partial", data |-> NoData]

WriteErrorMessage(outcome) == <<"OSError", outcome>>

\* f"Error: {str(e)}", line 219
ErrorSummary(msg) == <<"Error: ">> \o msg

IsErrorSummary(s) == Len(s) >= 1 /\ s[1] = "Error: "

\* chunk["summary"] = value
WithSummary(chunkList, k, value) ==
    [chunkList EXCEPT ![k + 1].has_summary = TRUE, ![k + 1].summary = value]

\* Lines 33-54: the document is read, or an exception ends the reading and is
\* caught: the pages read before it are returned.
extract_pdf ==
    /\ pc = "extract"
    /\ \E doc \in Documents, readable \in BOOLEAN :
         \E n \in (IF readable THEN {Len(doc)} ELSE 0..Len(doc)) :
            /\ extracted_pages' = ExtractedPages(doc, n)
            /\ extractError' = ~readable
    /\ pc' = "chunk"
    /\ UNCHANGED <<fileAtStart, file, text_chunks, i, successful_chunks,
                   outcomes, writes, pacing, raised>>
    /\ UNCHANGED sumVars
    /\ UNCHANGED chunkVars

\* Lines 191-202.
ChunkPages ==
    /\ pc = "chunk"
    /\ text_chunks' = chunk_text(extracted_pages, DefaultChunkSize, DefaultChunkOverlap)
    /\ successful_chunks' = 0
    /\ i' = 0
    /\ pc' = "loop"
    /\ UNCHANGED <<fileAtStart, file, extracted_pages, extractError, outcomes,
                   writes, pacing, raised>>
    /\ UNCHANGED sumVars
    /\ UNCHANGED chunkVars

\* Line 203 and the call of line 208.
NextChunk ==
    /\ pc = "loop"
    /\ i < Len(text_chunks)
    /\ SummarizeEntry(DefaultMaxRetries)
    /\ pc' = "summarize"
    /\ UNCHANGED <<fileAtStart, file, extracted_pages, extractError, text_chunks,
                   i, successful_chunks, outcomes, writes, pacing, raised>>
    /\ UNCHANGED chunkVars

\* Lines 209-211: the call returned.
SummaryReturned ==
    /\ pc = "summarize"
    /\ sstate = "succeeded"
    /\ text_chunks' = WithSummary(text_chunks, i, retval)
    /\ successful_chunks' = successful_chunks + 1
    /\ outcomes' = Append(outcomes, [ok |-> TRUE, val |-> retval])
    /\ sstate' = "idle"
    /\ pc' = "save"
    /\ UNCHANGED <<fileAtStart, file, extracted_pages, extractError, i, writes,
                   pacing, raised>>
    /\ UNCHANGED <<max_retries, attempt, sleeps, responses, retval>>
    /\ UNCHANGED chunkVars

\* Lines 216-219: the call raised.
SummaryRaised ==
    /\ pc = "summarize"
    /\ sstate = "failed"
    /\ text_chunks' = WithSummary(text_chunks, i, ErrorSummary(raised))
    /\ outcomes' = Append(outcomes, [ok |-> FALSE, val |-> raised])
    /\ raised' = <<>>
    /\ sstate' = "idle"
    /\ pc' = "pace"
    /\ UNCHANGED <<fileAtStart, file, extracted_pages, extractError, i,
                   successful_chunks, writes, pacing>>
    /\ UNCHANGED <<max_retries, attempt, sleeps, responses, retval>>
    /\ UNCHANGED chunkVars

\* Line 214, inside the try of line 206: an exception of the write is caught
\* by the handler of lines 216-219.
SaveCheckpoint(outcome) ==
    /\ pc = "save"
    /\ file' = save_partial_results(file, pdf_path, text_chunks, outcome)
    /\ writes' = Append(writes, [chunk |-> i, outcome |-> outcome])
    /\ text_chunks' = IF outcome = "ok" THEN text_chunks
                      ELSE WithSummary(text_chunks, i,
                                       ErrorSummary(WriteErrorMessage(outcome)))
    /\ pc' = "pace"
    /\ UNCHANGED <<fileAtStart, extracted_pages, extractError, i,
                   successful_chunks, outcomes, pacing, raised>>
    /\ UNCHANGED sumVars
    /\ UNCHANGED chunkVars

Save == \E outcome \in WriteOutcomes : SaveCheckpoint(outcome)

\* Lines 222-225, and the step of the for loop.
Pace ==
    /\ pc = "pace"
    /\ pacing' = IF i < Len(text_chunks) - 1 THEN Append(pacing, RequestDelay)
                 ELSE pacing
    /\ i' = i + 1
    /\ pc' = "loop"
    /\ UNCHANGED <<fileAtStart, file, extracted_pages, extractError, text_chunks,
                   successful_chunks, outcomes, writes, raised>>
    /\ UNCHANGED sumVars
    /\ UNCHANGED chunkVars

\* Lines 228-238: the file is opened and parsed, then the path is returned.
Verify ==
    /\ pc = "loop"
    /\ i >= Len(text_chunks)
    /\ IF file.state = "absent"
       THEN pc' = "raised" /\ raised' = <<"FileNotFoundError">>
       ELSE IF file.state = "partial"
            THEN pc' = "raised" /\ raised' = <<"JSONDecodeError">>
            ELSE pc' = "done" /\ raised' = raised
    /\ UNCHANGED <<fileAtStart, file, extracted_pages, extractError, text_chunks,
                   i, successful_chunks, outcomes, writes, pacing>>
    /\ UNCHANGED sumVars
    /\ UNCHANGED chunkVars

ChunkerIdle ==
    /\ cin = [pages |-> <<>>, chunk_size |-> 0, chunk_overlap |-> 0]
    /\ cpage = 0
    /\ cstart = -1
    /\ chunks = <<>>
    /\ windows = <<>>

SummarizerIdle ==
    /\ sstate = "idle"
    /\ max_retries = 0
    /\ attempt = 0
    /\ sleeps = <<>>
    /\ responses = <<>>
    /\ retval = <<>>

PipelineIdle(at) ==
    /\ pc = at
    /\ fileAtStart = NoFile
    /\ file = NoFile
    /\ extracted_pages = <<>>
    /\ extractError = FALSE
    /\ text_chunks = <<>>
    /\ i = 0
    /\ successful_chunks = 0
    /\ outcomes = <<>>
    /\ writes = <<>>
    /\ pacing = <<>>

\* A run starts with the output directory made (line 183); the output path
\* holds nothing, or the output of an earlier run.
Init ==
    /\ pc = "extract"
    /\ fileAtStart \in {NoFile, StaleFile}
    /\ file = fileAtStart
    /\ extracted_pages = <<>>
    /\ extractError = FALSE
    /\ text_chunks = <<>>
    /\ i = 0
    /\ successful_chunks = 0
    /\ outcomes = <<>>
    /\ writes = <<>>
    /\ pacing = <<>>
    /\ raised = <<>>
    /\ SummarizerIdle
    /\ ChunkerIdle

Next ==
    \/ extract_pdf
    \/ ChunkPages
    \/ NextChunk
    \/ CallEndpoint
    \/ SummaryReturned
    \/ SummaryRaised
    \/ Save
    \/ Pace
    \/ Verify

Spec == Init /\ [][Next]_vars

\* One call of summarize_with_claude(chunk_text, max_retries).
InitSum ==
    /\ PipelineIdle("lib")
    /\ ChunkerIdle
    /\ raised = <<>>
    /\ sstate = "attempting"
    /\ max_retries \in 0..MaxRetries
    /\ attempt = 0
    /\ sleeps = <<>>
    /\ responses = <<>>
    /\ retval = <<>>

NextSum == CallAnyEndpoint \/ LoopExhausted

SpecSum == InitSum /\ [][NextSum]_vars

(***************************************************************************)
(* One call of chunk_text, a page or a loop iteration per step.            *)
(***************************************************************************)
MaxLead == 2           \* filler characters before the varied part of a short text
MaxPattern == 2        \* characters of the varied part of a text
MaxTail == 2           \* filler characters after it
MaxChunkSize == 3      \* largest of the small chunk sizes
MaxOverlap == 3        \* largest chunk_overlap
MaxBreaks == 2         \* breaks and terminators in a row in a wide text

Chars == {"a", " ", "\n", "."}

Filler(n) == [k \in 1..n |-> "a"]

\* Page texts: any string over Chars up to MaxPattern characters, between two
\* runs of filler. The long leads put the varied part where the search window
\* of a chunk_size of 10 (its last 2 characters) lies.
Leads == 0..MaxLead \cup {7, 8}
Texts ==
    {Filler(p) \o w \o Filler(q) :
        p \in Leads, w \in SeqsUpTo(Chars, MaxPattern), q \in 0..MaxTail}

\* A document is one such page, alone or after a short or a blank page.
FirstPages == {<<"b">>, <<" ">>, <<"b", "c">>}
ChunkInputs ==
    {<<[text |-> t, page_number |-> 1]>> : t \in Texts}
    \cup {<<[text |-> s, page_number |-> 1], [text |-> t, page_number |-> 2]>> :
            s \in FirstPages, t \in {Filler(n) : n \in 0..(MaxLead + MaxTail)}}

ChunkSizes == 1..MaxChunkSize \cup {10}

\* Pages for a chunk_size of 20, whose search window is 4 characters wide: up
\* to MaxBreaks paragraph breaks and sentence terminators in a row, placed
\* around the offsets 16..19 of the first window.
Breaks == {<<".", " ">>, <<".", "\n">>, <<"!", " ">>, <<"\n", "\n">>}

RECURSIVE BreakRuns(_)
BreakRuns(n) ==
    IF n = 0 THEN {<<>>}
    ELSE LET shorter == BreakRuns(n - 1)
         IN  shorter \cup {r \o b : r \in {q \in shorter : Len(q) = 2 * (n - 1)},
                                    b \in Breaks}

WideLeads == {15, 16, 17}
WideTexts ==
    {Filler(p) \o w \o Filler(q) :
        p \in WideLeads, w \in BreakRuns(MaxBreaks), q \in 0..MaxTail}
WideInputs == {<<[text |-> t, page_number |-> 1]>> : t \in WideTexts}

\* The calls of chunk_text the model makes.
ChunkCalls ==
    [pages : ChunkInputs, chunk_size : ChunkSizes, chunk_overlap : 0..MaxOverlap]
    \cup [pages : WideInputs, chunk_size : {20}, chunk_overlap : 0..MaxOverlap]

CurrentPage == cin.pages[cpage + 1]

notChunkVars == <<fileAtStart, file, extracted_pages, extractError, text_chunks,
                  i, successful_chunks, outcomes, writes, pacing, raised,
                  sstate, max_retries, attempt, sleeps, responses, retval>>

\* Lines 75-77.
SkipEmptyPage ==
    /\ pc = "chunker"
    /\ cpage < Len(cin.pages)
    /\ cstart = -1
    /\ IsEmptyPage(CurrentPage.text)
    /\ cpage' = cpage + 1
    /\ UNCHANGED <<pc, cin, cstart, chunks, windows>>
    /\ UNCHANGED notChunkVars

\* Lines 79-88.
WholePage ==
    /\ pc = "chunker"
    /\ cpage < Len(cin.pages)
    /\ cstart = -1
    /\ ~IsEmptyPage(CurrentPage.text)
    /\ FitsOneChunk(CurrentPage.text, cin.chunk_size)
    /\ chunks' = Append(chunks, Chunk(CurrentPage.text, CurrentPage.page_number))
    /\ cpage' = cpage + 1
    /\ UNCHANGED <<pc, cin, cstart, windows>>
    /\ UNCHANGED notChunkVars

\* Line 91.
BeginSplit ==
    /\ pc = "chunker"
    /\ cpage < Len(cin.pages)
    /\ cstart = -1
    /\ ~IsEmptyPage(CurrentPage.text)
    /\ ~FitsOneChunk(CurrentPage.text, cin.chunk_size)
    /\ cstart' = 0
    /\ UNCHANGED <<pc, cin, cpage, chunks, windows>>
    /\ UNCHANGED notChunkVars

\* One iteration of the loop of lines 92-125.
SplitStep ==
    /\ pc = "chunker"
    /\ cstart >= 0
    /\ SplitContinues(CurrentPage.text, cstart)
    /\ LET end == WindowEnd(CurrentPage.text, cstart, cin.chunk_size)
           new == WindowChunks(CurrentPage.text, cstart, end, CurrentPage.page_number)
       IN  /\ chunks' = chunks \o new
           /\ windows' = Append(windows, [page |-> CurrentPage.page_number,
                                          start |-> cstart, end |-> end,
                                          emitted |-> new # <<>>])
           /\ cstart' = NextStart(cstart, end, cin.chunk_overlap)
    /\ UNCHANGED <<pc, cin, cpage>>
    /\ UNCHANGED notChunkVars

\* The loop of line 92 ends; the next page follows.
EndSplit ==
    /\ pc = "chunker"
    /\ cstart >= 0
    /\ ~SplitContinues(CurrentPage.text, cstart)
    /\ cstart' = -1
    /\ cpage' = cpage + 1
    /\ UNCHANGED <<pc, cin, chunks, windows>>
    /\ UNCHANGED notChunkVars

\* Line 133.
ReturnChunks ==
    /\ pc = "chunker"
    /\ cpage >= Len(cin.pages)
    /\ pc' = "returned"
    /\ UNCHANGED <<cin, cpage, cstart, chunks, windows>>
    /\ UNCHANGED notChunkVars


InitChunk ==
    /\ PipelineIdle("chunker")
    /\ SummarizerIdle
    /\ raised = <<>>
    /\ cin \in ChunkCalls
    /\ cpage = 0
    /\ cstart = -1
    /\ chunks = <<>>
    /\ windows = <<>>

NextChunkText ==
    \/ SkipEmptyPage
    \/ WholePage
    \/ BeginSplit
    \/ SplitStep
    \/ EndSplit
    \/ ReturnChunks

SpecChunk == InitChunk /\ [][NextChunkText]_vars

\* The step-by-step run returns what chunk_text, used by the orchestrator, computes.
ChunkerAgrees ==
    pc = "returned" => chunks = chunk_text(cin.pages, cin.chunk_size, cin.chunk_overlap)

(***************************************************************************)
(* Properties of process_stock_report (specification Spec).                *)
(***************************************************************************)
NoWriteFailed == \A k \in 1..Len(writes) : writes[k].outcome = "ok"

SomeChunkFailed == \E k \in 1..Len(outcomes) : ~outcomes[k].ok

\* C1: once chunk i's summarization step has finished, by a summary or by an
\* error marker, and before the next chunk starts (or the run ends), the
\* checkpoint file has been rewritten for chunk i and holds the in-memory
\* record. Stated for the runs of a readable document in which every write
\* that was made succeeded.
C1_CheckpointAfterEveryChunk ==
    (pc = "pace" /\ NoWriteFailed /\ ~extractError) =>
        /\ Len(writes) = i + 1
        /\ file = DumpJson(pdf_path, text_chunks)

\* C2: from the moment the result record exists, before the first call of
\* summarize_with_claude, the checkpoint file holds the record with all its
\* chunks, also when the document yields no chunk.
C2_CheckpointBeforeFirstCall ==
    (pc \in {"loop", "summarize", "save", "pace", "done", "raised"} /\ NoWriteFailed
        /\ ~extractError) =>
        /\ file.state = "written"
        /\ file.data.source = pdf_path
        /\ Len(file.data.chunks) = Len(text_chunks)

\* C3: whatever the summarization of the chunks does, the run does not raise.
\* Stated for the runs of a readable document with at least one chunk
\* summarized and no failed write.
C3_NeverRaises ==
    (NoWriteFailed /\ ~extractError /\ Len(outcomes) >= 1) => pc # "raised"

\* C4: a run that completes with some chunk's summarization failed leaves a
\* file that holds all the chunks in order, each with a summary: the returned
\* summary where the call succeeded, an error string where it failed; and the
\* success counter is the number of calls that succeeded. Stated for the runs
\* that start without an output file and in which no write failed.
C4_AllChunksPersisted ==
    (pc = "done" /\ SomeChunkFailed /\ NoWriteFailed /\ fileAtStart = NoFile
        /\ ~extractError) =>
        /\ file.state = "written"
        /\ Len(file.data.chunks) = Len(text_chunks)
        /\ \A k \in 1..Len(text_chunks) :
              /\ file.data.chunks[k].text = text_chunks[k].text
              /\ file.data.chunks[k].has_summary
              /\ outcomes[k].ok => file.data.chunks[k].summary = outcomes[k].val
              /\ ~outcomes[k].ok => IsErrorSummary(file.data.chunks[k].summary)
        /\ successful_chunks = Cardinality({k \in 1..Len(outcomes) : outcomes[k].ok})

\* C5: a failed write of the checkpoint file aborts the run: no later chunk is
\* summarized and the chunk keeps the summary its call returned.
C5_WriteFailureAborts ==
    \A k \in 1..Len(writes) :
        (writes[k].outcome \in WriteErrors /\ ~extractError) =>
            /\ pc = "raised"
            /\ Len(outcomes) = writes[k].chunk + 1
            /\ text_chunks[writes[k].chunk + 1].summary = outcomes[writes[k].chunk + 1].val

\* C6: a document that cannot be read aborts the run before chunk_text is
\* called and before any summarization or write.
C6_ExtractionErrorAborts ==
    extractError =>
        /\ pc \notin {"loop", "summarize", "save", "pace", "done"}
        /\ outcomes = <<>>
        /\ writes = <<>>

(***************************************************************************)
(* Properties of summarize_with_claude (specification SpecSum).            *)
(***************************************************************************)
Throttled(resp) == ~resp.ok /\ resp.body \in {ThrottlingError, ThrottlingError2}

\* C7: with max_retries >= 1, throttling on attempts 1..k-1 and a success on
\* attempt k give exactly k-1 sleeps, the one after the attempt of index i
\* lasting 2^(i+2) seconds; the success is the last call made and what it
\* carried is what is returned.
C7_BackoffThenSuccess ==
    \A k \in 1..Len(responses) :
        (/\ max_retries >= 1
         /\ responses[k].ok
         /\ \A j \in 1..(k - 1) : Throttled(responses[j])) =>
            /\ k <= max_retries
            /\ Len(responses) = k
            /\ sstate = "succeeded"
            /\ Len(sleeps) = k - 1
            /\ \A idx \in 0..(k - 2) : sleeps[idx + 1] = 2 ^ (idx + 2)
            /\ retval = responses[k].body

C7_Witness ==
    /\ sstate = "succeeded"
    /\ Len(responses) = 3
    /\ Throttled(responses[1]) /\ Throttled(responses[2])
    /\ sleeps = <<4, 8>>
    /\ retval = responses[3].body

C9_OtherErrorPropagates ==
    \A k \in 1..Len(responses) :
        (~responses[k].ok /\ ~Throttled(responses[k])) =>
            /\ Len(responses) = k
            /\ sstate = "failed"
            /\ raised = responses[k].body
            /\ Len(sleeps) = k - 1

C9_Witness ==
    /\ Len(responses) = 3
    /\ Throttled(responses[1]) /\ Throttled(responses[2])
    /\ responses[3] = [ok |-> FALSE, body |-> OtherError]
    /\ sstate = "failed"
    /\ Len(sleeps) = 2

(***************************************************************************)
(* Properties of chunk_text (specification SpecChunk).                     *)
(***************************************************************************)
PageText(n) == cin.pages[n].text

NoBreaks(text) == \A k \in 1..Len(text) : text[k] = "a"

\* The number of window k among the windows of its page (1 for the first).
WindowRank(k) ==
    Cardinality({j \in 1..k : windows[j].page = windows[k].page})

\* C10: a page of non-whitespace text without paragraph break or sentence
\* terminator, longer than chunk_size, with 0 <= overlap < chunk_size, is cut
\* at the offsets 0, (chunk_size - overlap), 2*(chunk_size - overlap), ..., and
\* no window follows one that reached the end of the text.
C10_HardCutoffOffsets ==
    \A k \in 1..Len(windows) :
        LET text == PageText(windows[k].page)
        IN  (/\ NoBreaks(text)
             /\ Len(text) > cin.chunk_size
             /\ cin.chunk_overlap < cin.chunk_size) =>
                /\ windows[k].start =
                       (WindowRank(k) - 1) * (cin.chunk_size - cin.chunk_overlap)
                /\ windows[k].end = Min(windows[k].start + cin.chunk_size, Len(text))
                /\ WindowRank(k) > 1 => windows[k - 1].end < Len(text)

\* The positions in the output of the chunks tagged with page n.
ChunksOfPage(n) == {k \in 1..Len(chunks) : chunks[k].source_page = n}

\* The pages chunk_text has finished with.
PagesDone == 1..cpage

HasText(text) == \E k \in 1..Len(text) : text[k] \notin {" ", "\n"}

\* C11 as claimed: every page whose trimmed text is non-empty and at most
\* chunk_size long, whatever its untrimmed length, yields exactly one chunk,
\* whose text is the full trimmed text.
C11_OneChunkOfTrimmedText ==
    \A n \in PagesDone :
        (HasText(PageText(n)) /\ Len(Strip(PageText(n))) <= cin.chunk_size) =>
            /\ Cardinality(ChunksOfPage(n)) = 1
            /\ \A k \in ChunksOfPage(n) : chunks[k].text = Strip(PageText(n))

\* C11 amended: every page with some non-whitespace text whose untrimmed
\* length is at most chunk_size yields exactly one chunk, whose text is the
\* full untrimmed text.
C11_OneChunkOfFullText ==
    \A n \in PagesDone :
        (HasText(PageText(n)) /\ Len(PageText(n)) <= cin.chunk_size) =>
            /\ Cardinality(ChunksOfPage(n)) = 1
            /\ \A k \in ChunksOfPage(n) : chunks[k].text = PageText(n)

C11_Witness ==
    /\ pc = "returned"
    /\ cin.chunk_size = 2
    /\ PageText(1) = <<" ", "a">>
    /\ Len(chunks) = 1
    /\ chunks[1].text = <<" ", "a">>

\* C12: a page that is empty or all whitespace yields no chunk, and every
\* chunk emitted, by the one-chunk path or by the splitting loop, has some
\* text left after trimming.
C12_NoBlankChunks ==
    /\ \A n \in PagesDone : ~HasText(PageText(n)) => ChunksOfPage(n) = {}
    /\ \A k \in 1..Len(chunks) : HasText(chunks[k].text)

C12_Witness ==
    /\ pc = "returned"
    /\ ~HasText(PageText(1))
    /\ Len(cin.pages) = 2
    /\ chunks # <<>>
    /\ \A k \in 1..Len(chunks) : chunks[k].source_page = 2

\* The positions in the history of the windows cut from page n, and the
\* window that follows window k on the same page.
WindowsOfPage(n) == {k \in 1..Len(windows) : windows[k].page = n}

IsSplit(n) == WindowsOfPage(n) # {}

SamePageNext(k) == k + 1 <= Len(windows) /\ windows[k + 1].page = windows[k].page

\* C13: with chunk_size > 0 and 0 <= overlap < chunk_size, the windows of a
\* page that is split start at 0, each starts no later than the one before it
\* ended, and the last ends at the length of the text, so that every offset
\* of the page lies in some window.
C13_WindowsCover ==
    (cin.chunk_size > 0 /\ cin.chunk_overlap < cin.chunk_size) =>
        /\ \A k \in 1..Len(windows) :
              /\ WindowRank(k) = 1 => windows[k].start = 0
              /\ SamePageNext(k) => windows[k + 1].start <= windows[k].end
        /\ \A n \in PagesDone :
              IsSplit(n) =>
                  /\ \E k \in WindowsOfPage(n) : windows[k].end = Len(PageText(n))
                  /\ \A pos \in 0..(Len(PageText(n)) - 1) :
                        \E k \in WindowsOfPage(n) :
                            windows[k].start <= pos /\ pos < windows[k].end

C13_Witness ==
    /\ pc = "returned"
    /\ cin.chunk_size = 20
    /\ cin.chunk_overlap = 1
    /\ Len(windows) >= 2
    /\ windows[1].end < 20
    /\ windows[2].start = windows[1].end - 1

\* C14: in the splitting loop start grows on every iteration, for every text,
\* every chunk_size > 0 and every overlap >= 0, also overlap >= chunk_size - 1;
\* so a page of n characters takes at most n iterations.
C14_StartIncreases ==
    /\ \A k \in 1..Len(windows) :
          SamePageNext(k) => windows[k + 1].start > windows[k].start
    /\ (cstart >= 0 /\ IsSplit(cpage + 1)) =>
          \A k \in WindowsOfPage(cpage + 1) : cstart > windows[k].start
    /\ \A n \in 1..Len(cin.pages) :
          Cardinality(WindowsOfPage(n)) <= Len(PageText(n))
    /\ \A n \in PagesDone : IsSplit(n) => Len(PageText(n)) > cin.chunk_size

C14_Witness ==
    /\ pc = "returned"
    /\ cin.chunk_overlap >= cin.chunk_size
    /\ Len(windows) >= 3
    /\ windows[3].start = windows[2].start + 1

(***************************************************************************)
(* chunk_text and the orchestrator together: the runs of both.             *)
(***************************************************************************)
InitAll == Init \/ InitChunk

NextAll == Next \/ NextChunkText

SpecAll == InitAll /\ [][NextAll]_vars

\* The r-th smallest member of a set of positions.
NthOf(S, r) == CHOOSE x \in S : Cardinality({y \in S : y <= x}) = r

RankIn(S, x) == Cardinality({y \in S : y <= x})

EmittedOfPage(n) == {k \in WindowsOfPage(n) : windows[k].emitted}

\* The text of the window at position k of the history, trimmed.
WindowText(k) ==
    Strip(Slice(PageText(windows[k].page), windows[k].start, windows[k].end))

NonDecreasingPages(list) ==
    \A k \in 1..(Len(list) - 1) : list[k].source_page <= list[k + 1].source_page

\* The chunks of a list are the pages of the orchestrator's document that have
\* text, one chunk a page, in page order.
OnePerPageInOrder(list) ==
    /\ \A k \in 1..Len(list) :
          /\ list[k].pages = <<list[k].source_page>>
          /\ list[k].source_page \in 1..Len(extracted_pages)
          /\ list[k].text = extracted_pages[list[k].source_page].text
    /\ \A k \in 1..(Len(list) - 1) : list[k].source_page < list[k + 1].source_page

\* C15: every chunk carries pages = <<page_number>> and source_page =
\* page_number of the page it was cut from; the output lists the chunks in
\* page order and, within a page, by increasing start offset; the orchestrator
\* keeps that order, in memory and in the file.
C15_PageTagsAndOrder ==
    /\ \A k \in 1..Len(chunks) :
          /\ chunks[k].pages = <<chunks[k].source_page>>
          /\ chunks[k].source_page \in 1..Len(cin.pages)
          /\ LET n == chunks[k].source_page
             IN  IF IsSplit(n)
                 THEN /\ RankIn(ChunksOfPage(n), k) <= Cardinality(EmittedOfPage(n))
                      /\ chunks[k].text =
                            WindowText(NthOf(EmittedOfPage(n), RankIn(ChunksOfPage(n), k)))
                 ELSE /\ ChunksOfPage(n) = {k}
                      /\ chunks[k].text = PageText(n)
    /\ NonDecreasingPages(chunks)
    /\ \A n \in 1..Len(cin.pages) :
          IsSplit(n) => Cardinality(ChunksOfPage(n)) = Cardinality(EmittedOfPage(n))
    /\ \A k \in 1..Len(windows) :
          SamePageNext(k) => windows[k].start < windows[k + 1].start
    /\ OnePerPageInOrder(text_chunks)
    /\ file.state = "written" =>
          /\ OnePerPageInOrder(file.data.chunks)
          /\ Len(file.data.chunks) = Len(text_chunks)

C15_Witness ==
    /\ pc = "returned"
    /\ Len(cin.pages) = 2
    /\ Cardinality(ChunksOfPage(1)) = 2
    /\ chunks[1].text = <<"b">> /\ chunks[2].text = <<"c">>
    /\ Cardinality(ChunksOfPage(2)) >= 2
    /\ chunks[3].pages = <<2>>

\* What the text shows in the search window of window k, stated on the text.
WinText(k) == PageText(windows[k].page)

WinHardEnd(k) == Min(windows[k].start + cin.chunk_size, Len(WinText(k)))

WinSearchStart(k) == Max(WinHardEnd(k) - ((cin.chunk_size * 2) \div 10), 0)

\* The offsets in the search window at which the two characters a, b stand.
PairsAt(k, pairs) ==
    {p \in WinSearchStart(k)..(WinHardEnd(k) - 2) :
        <<WinText(k)[p + 1], WinText(k)[p + 2]>> \in pairs}

Terminators == {<<".", " ">>, <<"!", " ">>, <<"?", " ">>,
                <<".", "\n">>, <<"!", "\n">>, <<"?", "\n">>}

\* Paragraph breaks in the window after start; sentence terminators in it.
BreaksAfterStart(k) == {p \in PairsAt(k, {<<"\n", "\n">>}) : p > windows[k].start}

TerminatorsIn(k) == PairsAt(k, Terminators)

MaxOf(S) == CHOOSE x \in S : \A y \in S : y <= x

\* C16: without a usable paragraph break, end is just past the sentence
\* terminator that stands at the largest offset of the search window, however
\* the terminators are arranged, provided that offset is after start.
C16_LastTerminatorWins ==
    \A k \in 1..Len(windows) :
        (/\ BreaksAfterStart(k) = {}
         /\ TerminatorsIn(k) # {}
         /\ MaxOf(TerminatorsIn(k)) > windows[k].start) =>
            windows[k].end = MaxOf(TerminatorsIn(k)) + 2

\* C17: a paragraph break in the search window after start puts end just past
\* the rightmost such break, whatever sentence terminators the window holds;
\* without one, end is just past a sentence terminator of the window when one
\* stands after start; with neither break nor terminator in the window, end
\* is the hard cutoff.
C17_ParagraphBreakFirst ==
    \A k \in 1..Len(windows) :
        /\ BreaksAfterStart(k) # {} =>
              windows[k].end = MaxOf(BreaksAfterStart(k)) + 2
        /\ (/\ BreaksAfterStart(k) = {}
            /\ \E t \in TerminatorsIn(k) : t > windows[k].start) =>
              windows[k].end \in {t + 2 : t \in TerminatorsIn(k)}
        /\ (BreaksAfterStart(k) = {} /\ TerminatorsIn(k) = {}) =>
              windows[k].end = WinHardEnd(k)

C17_Witness ==
    /\ Len(windows) >= 1
    /\ cin.chunk_size = 20
    /\ BreaksAfterStart(1) = {16}
    /\ TerminatorsIn(1) = {18}
    /\ windows[1].end = 18

\* C18: no chunk is longer than chunk_size: every window ends after its start
\* and no later than min(start + chunk_size, length).
C18_ChunkWithinSize ==
    /\ \A k \in 1..Len(chunks) : Len(chunks[k].text) <= cin.chunk_size
    /\ \A k \in 1..Len(windows) :
          /\ windows[k].start < windows[k].end
          /\ windows[k].end <= WinHardEnd(k)
          /\ windows[k].end - windows[k].start <= cin.chunk_size

C18_Witness ==
    /\ Len(windows) >= 2
    /\ windows[1].end < WinHardEnd(1)
    /\ windows[2].end = WinHardEnd(2)
    /\ Len(chunks) >= 2
    /\ Len(chunks[1].text) < cin.chunk_size

\* C19: when the run ends, the success counter is the number of chunks whose
\* summary is a summary the model returned, and no returned summary has been
\* replaced by an error string. Stated for the runs of a readable document.
C19_CounterMatchesSummaries ==
    (pc \in {"done", "raised"} /\ ~extractError) =>
        /\ successful_chunks =
              Cardinality({k \in 1..Len(text_chunks) :
                  text_chunks[k].has_summary /\ ~IsErrorSummary(text_chunks[k].summary)})
        /\ \A k \in 1..Len(outcomes) :
              outcomes[k].ok => text_chunks[k].summary = outcomes[k].val

====
